---- MODULE Spec2Model ----
(***************************************************************************)
(* Model of the NTFS partition boot sector reader (zX3no/ntfs).            *)
(*                                                                         *)
(* Integers wider than 16 bits (u32, u64) are kept as tuples of 16-bit     *)
(* limbs, least significant limb first, because their values exceed the    *)
(* model checker's integer range.  A u16 or u8 is a plain number.          *)
(***************************************************************************)
EXTENDS Integers, Sequences, FiniteSets, TLC

(* ------------------------------ bounds --------------------------------- *)
MaxSectors == 2
MaxEdits == 2
MaxCalls == 2

(* --------------------------- program constants -------------------------- *)
\* partition_boot_sector.rs:37  (3 + 8 + 2 + ... + 426 + 2)
PARTITION_BOOT_SECTOR == 512

Byte == 0..255

(* ------------------------------ integers -------------------------------- *)
\* u16::from_le_bytes([b0, b1])
U16FromLe(b0, b1) == b0 + 256 * b1

\* u32::from_le_bytes([b0, b1, b2, b3]), as two 16-bit limbs
U32FromLe(b0, b1, b2, b3) == <<U16FromLe(b0, b1), U16FromLe(b2, b3)>>

\* u64::from_le_bytes(buf[o..o + 8]), as four 16-bit limbs
U64FromLe(buf, o) ==
    << U16FromLe(buf[o], buf[o + 1]), U16FromLe(buf[o + 2], buf[o + 3]),
       U16FromLe(buf[o + 4], buf[o + 5]), U16FromLe(buf[o + 6], buf[o + 7]) >>

\* i8::from_le_bytes([b]): two's complement
I8FromLe(b) == IF b < 128 THEN b ELSE b - 256

(* ------------------------------ from_utf8 ------------------------------- *)
IsCont(b) == b >= 128 /\ b <= 191

\* core::str::from_utf8 validation of the bytes s[i..] (Unicode well-formed
\* byte sequences: no overlong forms, no surrogates, nothing above U+10FFFF)
RECURSIVE Utf8From(_, _)
Utf8From(s, i) ==
    IF i > Len(s) THEN TRUE
    ELSE LET b == s[i]
             n == Len(s) - i
         IN  IF b < 128 THEN Utf8From(s, i + 1)
             ELSE IF b >= 194 /\ b <= 223
                  THEN n >= 1 /\ IsCont(s[i + 1]) /\ Utf8From(s, i + 2)
             ELSE IF b >= 224 /\ b <= 239
                  THEN /\ n >= 2
                       /\ IF b = 224 THEN s[i + 1] >= 160 /\ s[i + 1] <= 191
                          ELSE IF b = 237 THEN s[i + 1] >= 128 /\ s[i + 1] <= 159
                          ELSE IsCont(s[i + 1])
                       /\ IsCont(s[i + 2])
                       /\ Utf8From(s, i + 3)
             ELSE IF b >= 240 /\ b <= 244
                  THEN /\ n >= 3
                       /\ IF b = 240 THEN s[i + 1] >= 144 /\ s[i + 1] <= 191
                          ELSE IF b = 244 THEN s[i + 1] >= 128 /\ s[i + 1] <= 143
                          ELSE IsCont(s[i + 1])
                       /\ IsCont(s[i + 2])
                       /\ IsCont(s[i + 3])
                       /\ Utf8From(s, i + 4)
             ELSE FALSE

from_utf8_ok(s) == Utf8From(s, 1)

\* the string literal "NTFS    " as bytes
OemNtfs == <<78, 84, 70, 83, 32, 32, 32, 32>>

(* --------------------------------- Size --------------------------------- *)
\* enum Size { Bytes(u32), Clusters(u8) }; tag "Panic" is a decode that
\* unwinds instead of producing a Size (line = the source line that panics)
SizeBytes(limbs) == [tag |-> "Bytes", n |-> limbs, line |-> 0]
SizeClusters(c) == [tag |-> "Clusters", n |-> <<c, 0>>, line |-> 0]
SizePanic(l) == [tag |-> "Panic", n |-> <<0, 0>>, line |-> l]

\* 2u32.pow(k) for an exponent 0 <= k <= 128: the wrapped product as limbs
\* and whether a multiplication overflowed (for base 2 the squaring loop of
\* u32::pow overflows exactly when 2^k does not fit in 32 bits, i.e. k >= 32,
\* and the wrapped product is then 0)
Pow2(k) ==
    IF k < 16 THEN [v |-> <<2 ^ k, 0>>, carry |-> FALSE]
    ELSE IF k < 32 THEN [v |-> <<0, 2 ^ (k - 16)>>, carry |-> FALSE]
    ELSE [v |-> <<0, 0>>, carry |-> TRUE]

\* i8::abs(): -128 has no positive counterpart; with overflow checks the
\* negation panics, without them it wraps to -128
AbsOverflows(x) == x = -128

\* `2u32.pow(x.abs() as u32)` for the i8 x, compiled with (oc = TRUE) or
\* without (oc = FALSE) overflow checks; line is the source line of the call
PowAbs(x, oc, line) ==
    IF AbsOverflows(x)
    THEN IF oc THEN SizePanic(line)
         \* (-128) as u32 = 0xFFFFFF80: bits 0..6 of the exponent are clear and
         \* the base has wrapped to 0 before bit 7 is reached, so the product is 0
         ELSE SizeBytes(<<0, 0>>)
    ELSE LET k == IF x < 0 THEN -x ELSE x
             p == Pow2(k)
         IN  IF p.carry /\ oc THEN SizePanic(line) ELSE SizeBytes(p.v)

\* partition_boot_sector.rs:143-148
file_record_segment_size(b, oc) ==
    LET file_record_segment == I8FromLe(b)
    IN  IF file_record_segment > 0
        THEN SizeClusters(file_record_segment)
        ELSE PowAbs(file_record_segment, oc, 147)

\* mutant: zero counted as a cluster count
index_buffer_size_nonneg(b, oc) ==
    LET index_buffer == I8FromLe(b)
    IN  IF index_buffer >= 0
        THEN SizeClusters(index_buffer)
        ELSE PowAbs(index_buffer, oc, 163)

\* partition_boot_sector.rs:159-164
index_buffer_size(b, oc) ==
    LET index_buffer == I8FromLe(b)
    IN  IF index_buffer > 0
        THEN SizeClusters(index_buffer)
        ELSE PowAbs(index_buffer, oc, 163)

(* ------------------------- PartitionBootSector -------------------------- *)
NoPbs ==
    [ bytes_per_sector |-> 0, sectors_per_cluster |-> 0, sectors_per_track |-> 0,
      number_of_heads |-> 0, hidden_sectors |-> <<0, 0>>,
      total_sectors |-> <<0, 0, 0, 0>>, mft_cluster_number |-> <<0, 0, 0, 0>>,
      mft_mirror_cluster_number |-> <<0, 0, 0, 0>>,
      file_record_segment |-> SizePanic(0), index_buffer |-> SizePanic(0),
      volume_serial_number |-> <<0, 0, 0, 0>> ]

\* outcome of a call: the struct is returned, or the call panics at `line`
Returned(p) == [tag |-> "Ok", line |-> 0, pbs |-> p]
Panicked(l) == [tag |-> "Panic", line |-> l, pbs |-> NoPbs]

\* the first n >= 1 of the `assert_eq!(buf[i], 0)` lines starting at `line`
\* for the bytes buf[o], buf[o+1], ...: the line of the first failure, 0 if none
RECURSIVE ZeroRun(_, _, _, _)
ZeroRun(buf, o, n, line) ==
    IF n = 0 THEN 0
    ELSE IF buf[o] # 0 THEN line
    ELSE ZeroRun(buf, o + 1, n - 1, line + 1)

\* the fields of the boot sector, read at their offsets
\* (partition_boot_sector.rs:73-190)
oem_id(buf) == [i \in 1..8 |-> buf[2 + i]]
bytes_per_sector(buf) == U16FromLe(buf[11], buf[12])
sectors_per_cluster(buf) == buf[13]
media_descriptor(buf) == buf[21]
sectors_per_track(buf) == U16FromLe(buf[24], buf[25])
number_of_heads(buf) == U16FromLe(buf[26], buf[27])
hidden_sectors(buf) == U32FromLe(buf[28], buf[29], buf[30], buf[31])
unused(buf) == U32FromLe(buf[36], buf[37], buf[38], buf[39])
total_sectors(buf) == U64FromLe(buf, 40)
mft_cluster_number(buf) == U64FromLe(buf, 48)
\* mutant: the offset of the field before it (a copied line)
mft_mirror_cluster_number_copied(buf) == U64FromLe(buf, 48)
mft_mirror_cluster_number(buf) == U64FromLe(buf, 56)
volume_serial_number(buf) == U64FromLe(buf, 72)
end_of_sector(buf) == U16FromLe(buf[510], buf[511])

\* mutant: only the four letters are compared, the padding is ignored
oem_id_ok_letters(oem) == oem[1] = 78 /\ oem[2] = 84 /\ oem[3] = 70 /\ oem[4] = 83

\* mutant: the zero check of the checksum runs one byte into the bootstrap code
checksum_unused_long(buf) == ZeroRun(buf, 80, 5, 178)

\* the four assert_eq!(buf[80..84], 0) of partition_boot_sector.rs:176-181
checksum_unused(buf) == ZeroRun(buf, 80, 4, 178)

\* assert_eq!(oem_id, "NTFS    ")  (partition_boot_sector.rs:74)
oem_id_ok(oem) == oem = OemNtfs

\* mutant: a lower bound instead of an equality
bytes_per_sector_ok_atleast(v) == v >= 512

\* assert_eq!(bytes_per_sector, 0x0200)  (partition_boot_sector.rs:78)
bytes_per_sector_ok(v) == v = 512

\* mutant: only the first marker byte (0x55) is compared
end_of_sector_ok_low(v) == v % 256 = 85

\* assert_eq!(end_of_sector, 0xAA55)  (partition_boot_sector.rs:191)
end_of_sector_ok(v) == v = 43605

\* the struct literal of partition_boot_sector.rs:193-205
PartitionBootSector(buf, frs, ib) ==
    [ bytes_per_sector |-> bytes_per_sector(buf),
      sectors_per_cluster |-> sectors_per_cluster(buf),
      sectors_per_track |-> sectors_per_track(buf),
      number_of_heads |-> number_of_heads(buf),
      hidden_sectors |-> hidden_sectors(buf),
      total_sectors |-> total_sectors(buf),
      mft_cluster_number |-> mft_cluster_number(buf),
      mft_mirror_cluster_number |-> mft_mirror_cluster_number(buf),
      file_record_segment |-> frs,
      index_buffer |-> ib,
      volume_serial_number |-> volume_serial_number(buf) ]

\* the body of pbs after read_exact (partition_boot_sector.rs:67-205): the
\* assertions in source order; the first that fails ends the call
pbs_decode(buf, oc) ==
    LET frs == file_record_segment_size(buf[64], oc)
        ib == index_buffer_size(buf[68], oc)
    IN  IF buf[0] # 235 THEN Panicked(68)
        ELSE IF buf[1] # 82 THEN Panicked(69)
        ELSE IF buf[2] # 144 THEN Panicked(70)
        ELSE IF ~from_utf8_ok(oem_id(buf)) THEN Panicked(73)
        ELSE IF ~oem_id_ok(oem_id(buf)) THEN Panicked(74)
        ELSE IF ~bytes_per_sector_ok(bytes_per_sector(buf)) THEN Panicked(78)
        ELSE IF sectors_per_cluster(buf) # 8 THEN Panicked(83)
        ELSE IF ZeroRun(buf, 14, 2, 86) # 0 THEN Panicked(ZeroRun(buf, 14, 2, 86))
        ELSE IF ZeroRun(buf, 16, 3, 90) # 0 THEN Panicked(ZeroRun(buf, 16, 3, 90))
        ELSE IF ZeroRun(buf, 19, 2, 95) # 0 THEN Panicked(ZeroRun(buf, 19, 2, 95))
        ELSE IF media_descriptor(buf) # 248 THEN Panicked(100)
        ELSE IF ZeroRun(buf, 22, 2, 103) # 0 THEN Panicked(ZeroRun(buf, 22, 2, 103))
        ELSE IF sectors_per_track(buf) # 63 THEN Panicked(108)
        ELSE IF number_of_heads(buf) # 255 THEN Panicked(112)
        ELSE IF ZeroRun(buf, 32, 4, 119) # 0 THEN Panicked(ZeroRun(buf, 32, 4, 119))
        ELSE IF unused(buf) # <<128, 128>> THEN Panicked(125)
        ELSE IF frs.tag = "Panic" THEN Panicked(frs.line)
        ELSE IF frs # SizeBytes(<<1024, 0>>) THEN Panicked(149)
        ELSE IF ZeroRun(buf, 65, 3, 152) # 0 THEN Panicked(ZeroRun(buf, 65, 3, 152))
        ELSE IF ib.tag = "Panic" THEN Panicked(ib.line)
        ELSE IF ib # SizeClusters(1) THEN Panicked(165)
        ELSE IF ZeroRun(buf, 69, 3, 168) # 0 THEN Panicked(ZeroRun(buf, 69, 3, 168))
        ELSE IF checksum_unused(buf) # 0 THEN Panicked(checksum_unused(buf))
        ELSE IF ~end_of_sector_ok(end_of_sector(buf)) THEN Panicked(191)
        ELSE Returned(PartitionBootSector(buf, frs, ib))

(* -------------------------------- main.rs ------------------------------- *)
\* how fn main() ends: it runs to its end, or it panics at `line` of main.rs
NotRun == [tag |-> "NotRun", line |-> 0]
MainCompleted == [tag |-> "Completed", line |-> 0]
MainPanicked(l) == [tag |-> "Panic", line |-> l]

\* mutant: the variant of the program that no longer checks the marker
main_end_of_sector_ok_dropped(v) == TRUE

\* assert_eq!(end_of_sector, 0xAA55)  (main.rs:136)
main_end_of_sector_ok(v) == v = 43605

\* assert_eq!(n_per_file_record_segment, 0xf6)  (main.rs:97-98)
main_file_record_segment_ok(buf) == buf[64] = 246

\* assert_eq!(n_per_index_buffer, 0x01)  (main.rs:108-109)
main_index_buffer_ok(buf) == buf[68] = 1

\* the body of main after read_exact (main.rs:17-141): the assertions in
\* source order on the raw bytes; the println! calls and the final dump of the
\* buffer change nothing that is modelled
main_decode(buf) ==
    IF buf[0] # 235 THEN MainPanicked(18)
    ELSE IF buf[1] # 82 THEN MainPanicked(19)
    ELSE IF buf[2] # 144 THEN MainPanicked(20)
    ELSE IF ~from_utf8_ok([i \in 1..8 |-> buf[2 + i]]) THEN MainPanicked(23)
    ELSE IF [i \in 1..8 |-> buf[2 + i]] # OemNtfs THEN MainPanicked(24)
    ELSE IF U16FromLe(buf[11], buf[12]) # 512 THEN MainPanicked(28)
    ELSE IF buf[13] # 8 THEN MainPanicked(33)
    ELSE IF ZeroRun(buf, 14, 2, 36) # 0 THEN MainPanicked(ZeroRun(buf, 14, 2, 36))
    ELSE IF ZeroRun(buf, 16, 3, 40) # 0 THEN MainPanicked(ZeroRun(buf, 16, 3, 40))
    ELSE IF ZeroRun(buf, 19, 2, 45) # 0 THEN MainPanicked(ZeroRun(buf, 19, 2, 45))
    ELSE IF buf[21] # 248 THEN MainPanicked(50)
    ELSE IF ZeroRun(buf, 22, 2, 53) # 0 THEN MainPanicked(ZeroRun(buf, 22, 2, 53))
    ELSE IF U16FromLe(buf[24], buf[25]) # 63 THEN MainPanicked(58)
    ELSE IF U16FromLe(buf[26], buf[27]) # 255 THEN MainPanicked(62)
    ELSE IF ZeroRun(buf, 32, 4, 70) # 0 THEN MainPanicked(ZeroRun(buf, 32, 4, 70))
    ELSE IF U32FromLe(buf[36], buf[37], buf[38], buf[39]) # <<128, 128>> THEN MainPanicked(76)
    ELSE IF ~main_file_record_segment_ok(buf) THEN MainPanicked(98)
    ELSE IF ZeroRun(buf, 65, 3, 101) # 0 THEN MainPanicked(ZeroRun(buf, 65, 3, 101))
    ELSE IF ~main_index_buffer_ok(buf) THEN MainPanicked(109)
    ELSE IF ZeroRun(buf, 69, 3, 112) # 0 THEN MainPanicked(ZeroRun(buf, 69, 3, 112))
    ELSE IF ZeroRun(buf, 80, 4, 123) # 0 THEN MainPanicked(ZeroRun(buf, 80, 4, 123))
    ELSE IF ~main_end_of_sector_ok(U16FromLe(buf[510], buf[511])) THEN MainPanicked(136)
    ELSE MainCompleted

(* ------------------------------- the volume ----------------------------- *)
Offsets == 0..(PARTITION_BOOT_SECTOR - 1)

ZeroSector == [i \in Offsets |-> 0]

\* bytes o, o+1, ... of a sector given as a tuple
Put(sec, o, bytes) ==
    [i \in Offsets |-> IF i >= o /\ i < o + Len(bytes) THEN bytes[i - o + 1] ELSE sec[i]]

\* the boot sector of the "typical value" column of the field table
\* (partition_boot_sector.rs:1-27)
TypicalSector ==
    Put(Put(Put(Put(Put(Put(Put(Put(Put(Put(Put(Put(Put(Put(ZeroSector,
        0, <<235, 82, 144>>),
        3, OemNtfs),
        11, <<0, 2>>),
        13, <<8>>),
        21, <<248>>),
        24, <<63, 0, 255, 0>>),
        28, <<63, 0, 0, 0>>),
        36, <<128, 0, 128, 0>>),
        40, <<74, 245, 127, 0, 0, 0, 0, 0>>),
        48, <<4, 0, 0, 0, 0, 0, 0, 0>>),
        56, <<84, 255, 7, 0, 0, 0, 0, 0>>),
        64, <<246, 0, 0, 0, 1>>),
        72, <<20, 165, 27, 116, 201, 27, 116, 28>>),
        510, <<85, 170>>)

\* bytes of the boot sector the environment varies, and the values it writes
PokeOffsets ==
    {0, 3, 10, 11, 12, 13, 14, 24, 28, 31, 36, 40, 47, 48, 55, 56, 63, 64, 68,
     72, 79, 80, 84, 300, 509, 510, 511}
PokeVals == {255}
\* a wrong OEM ID that is still valid UTF-8
OemOffsets == {3, 10}
OemVals == {0}
\* further values for the two signed size bytes (0x00, 0x02, 0x80, 0xE0)
SizeOffsets == {64, 68}
SizeVals == {0, 2, 128, 224}

(* -------------------------------- state --------------------------------- *)
VARIABLES
    file,             \* the volume: a sequence of 512-byte sectors
    pos,              \* byte position of the BufReader<File>
    overflow_checks,  \* build profile: TRUE = debug, FALSE = release
    edits,            \* bytes changed on the volume before it is opened
    calls,            \* the calls of pbs so far: the buf each read and its outcome
    pc,               \* "run", or "panicked" once a call has unwound
    size_byte,        \* a byte given to the two clusters-or-bytes decodes
    size_out,         \* what the two decodes made of it (NoSizes before)
    main_out          \* how the program of main.rs ended (NotRun before)

volume_vars == <<file, pos, edits, calls, pc>>
size_vars == <<size_byte, size_out>>
vars == <<overflow_checks, volume_vars, size_vars, main_out>>

NoSizes == [frs |-> SizePanic(0), ib |-> SizePanic(0)]

\* the parts of the state a specification does not use
VolumeIdle == file = <<>> /\ pos = 0 /\ edits = 0 /\ calls = <<>> /\ pc = "run"
SizeIdle == size_byte = 0 /\ size_out = NoSizes
MainIdle == main_out = NotRun

\* volumes: a boot sector followed by sectors that are blank or a boot sector copy
RECURSIVE TailSectors(_)
TailSectors(n) ==
    IF n = 0 THEN {<<>>}
    ELSE {Append(t, s) : t \in TailSectors(n - 1), s \in {ZeroSector, TypicalSector}}

Init ==
    /\ file \in {<<>>} \cup {<<TypicalSector>> \o t : t \in UNION {TailSectors(n) : n \in 0..(MaxSectors - 1)}}
    /\ pos = 0
    /\ overflow_checks \in BOOLEAN
    /\ edits = 0
    /\ calls = <<>>
    /\ pc = "run"
    /\ SizeIdle
    /\ MainIdle

\* the environment: one byte of the boot sector differs from the typical one
Poke(o, v) ==
    /\ calls = <<>>
    /\ main_out = NotRun
    /\ edits < MaxEdits
    /\ Len(file) >= 1
    /\ file[1][o] # v
    /\ file' = [file EXCEPT ![1] = [@ EXCEPT ![o] = v]]
    /\ edits' = edits + 1
    /\ UNCHANGED <<pos, overflow_checks, calls, pc, size_vars, main_out>>

\* reader.read_exact(&mut buf).unwrap() (partition_boot_sector.rs:64-65):
\* whether PARTITION_BOOT_SECTOR bytes are left at the reader's position
read_exact_ok == pos + PARTITION_BOOT_SECTOR <= Len(file) * PARTITION_BOOT_SECTOR

\* mutant: the read leaves the reader where it was
pos_after_rewound(p) == p

\* the reader's position after a call of pbs that started at position p
pos_after(p) == p + PARTITION_BOOT_SECTOR

\* pub fn pbs(reader: &mut BufReader<File>) -> PartitionBootSector
pbs ==
    /\ pc = "run"
    /\ Len(calls) < MaxCalls
    /\ IF read_exact_ok
       THEN LET buf == file[(pos \div PARTITION_BOOT_SECTOR) + 1]
                out == pbs_decode(buf, overflow_checks)
            IN  /\ calls' = Append(calls, [at |-> pos, read |-> TRUE, buf |-> buf, out |-> out])
                /\ pos' = pos_after(pos)
                /\ pc' = IF out.tag = "Panic" THEN "panicked" ELSE "run"
       ELSE /\ calls' = Append(calls, [at |-> pos, read |-> FALSE, buf |-> ZeroSector,
                                    out |-> Panicked(65)])
            /\ pos' = Len(file) * PARTITION_BOOT_SECTOR
            /\ pc' = "panicked"
    /\ UNCHANGED <<file, overflow_checks, edits, size_vars, main_out>>

Next ==
    \/ \E o \in PokeOffsets, v \in PokeVals : Poke(o, v)
    \/ \E o \in OemOffsets, v \in OemVals : Poke(o, v)
    \/ \E o \in SizeOffsets, v \in SizeVals : Poke(o, v)
    \/ pbs

Spec == Init /\ [][Next]_vars

\* the same volume and reader with an environment that varies fewer bytes,
\* among them both ends of the bootstrap code region
OpaqueOffsets == {0, 64, 80, 83, 84, 300, 509, 510}

NextOpaque ==
    \/ \E o \in OpaqueOffsets, v \in PokeVals : Poke(o, v)
    \/ \E o \in {3}, v \in OemVals : Poke(o, v)
    \/ \E o \in {64}, v \in SizeVals : Poke(o, v)
    \/ pbs

SpecOpaque == Init /\ [][NextOpaque]_vars

(* ======================= properties of pbs (Spec) ======================= *)
\* pbs has no error type: a failed check unwinds at its assert_eq!/unwrap.
\* The panic sites of the jump and OEM ID checks are the NotNtfs failure,
\* the site of the marker check is the InvalidBootSector failure.
NotNtfs == {68, 69, 70, 73, 74}
InvalidBootSector == {191}

\* the calls of pbs that got their 512 bytes
ReadCalls == {k \in 1..Len(calls) : calls[k].read}

\* little-endian value of the 2 bytes at offset o, and of 2n bytes as n limbs
Le16At(buf, o) == buf[o] + 256 * buf[o + 1]
LeLimbs(buf, o, n) == [i \in 1..n |-> Le16At(buf, o + 2 * (i - 1))]

JumpExpected(buf) == buf[0] = 235 /\ buf[1] = 82 /\ buf[2] = 144
OemExpected(buf) == \A i \in 1..8 : buf[2 + i] = OemNtfs[i]
MarkerExpected(buf) == Le16At(buf, 510) = 43605

\* C1: every buffer whose jump prefix or OEM ID differs from 0xEB 0x52 0x90 /
\* "NTFS    " makes pbs fail at the jump/OEM checks (NotNtfs), whatever the
\* other bytes are and also when the OEM bytes are not UTF-8; no geometry is
\* returned.
C1_NotNtfs ==
    \A k \in ReadCalls :
        (~JumpExpected(calls[k].buf) \/ ~OemExpected(calls[k].buf))
            => /\ calls[k].out.tag = "Panic"
               /\ calls[k].out.line \in NotNtfs
               /\ calls[k].out.pbs = NoPbs

\* a call on a buffer whose OEM ID is not UTF-8 and whose marker is wrong too
C1_Witness ==
    \E k \in ReadCalls :
        /\ ~from_utf8_ok(oem_id(calls[k].buf))
        /\ ~MarkerExpected(calls[k].buf)
        /\ calls[k].out.line = 73

\* C2 as stated: every buffer whose u16 at 0x1FE is not 0xAA55 makes pbs fail
\* with InvalidBootSector.
C2_Original ==
    \A k \in ReadCalls :
        ~MarkerExpected(calls[k].buf)
            => calls[k].out.tag = "Panic" /\ calls[k].out.line \in InvalidBootSector

\* C2 amended: every buffer whose u16 at 0x1FE is not 0xAA55 makes pbs fail and
\* a geometry is returned only when the marker is 0xAA55; the failure is
\* InvalidBootSector (a site outside NotNtfs) when the buffer would be accepted
\* with the marker put right, otherwise it is the failure of the earlier check.
C2_InvalidBootSector ==
    \A k \in ReadCalls :
        LET buf == calls[k].buf
            out == calls[k].out
            marked == [buf EXCEPT ![510] = 85, ![511] = 170]
        IN  /\ out.tag = "Ok" => MarkerExpected(buf)
            /\ ~MarkerExpected(buf) =>
                  /\ out.tag = "Panic" /\ out.pbs = NoPbs
                  /\ pbs_decode(marked, overflow_checks).tag = "Ok"
                        => out.line \in InvalidBootSector /\ out.line \notin NotNtfs
                  /\ pbs_decode(marked, overflow_checks).tag = "Panic"
                        => out = pbs_decode(marked, overflow_checks)

\* a call that fails at the marker check alone
C2_Witness ==
    \E k \in ReadCalls :
        /\ calls[k].buf[511] = 255
        /\ calls[k].out.line = 191

\* C3: every geometry pbs returns has bytes_per_sector = 512, and a buffer
\* whose u16 at 0x0B is not 512 makes pbs fail.
C3_BytesPerSector ==
    \A k \in ReadCalls :
        /\ calls[k].out.tag = "Ok" => calls[k].out.pbs.bytes_per_sector = 512
        /\ Le16At(calls[k].buf, 11) # 512
              => calls[k].out.tag = "Panic" /\ calls[k].out.pbs = NoPbs

\* a call that fails at the bytes-per-sector check
C3_Witness ==
    \E k \in ReadCalls :
        /\ Le16At(calls[k].buf, 11) # 512
        /\ calls[k].out.line = 78

\* C6: for every accepted buffer each integer field is the little-endian
\* value of the bytes at its documented offset.
C6_FieldOffsets ==
    \A k \in ReadCalls :
        calls[k].out.tag = "Ok" =>
            LET buf == calls[k].buf
                g == calls[k].out.pbs
            IN  /\ g.sectors_per_track = Le16At(buf, 24)
                /\ g.number_of_heads = Le16At(buf, 26)
                /\ g.hidden_sectors = LeLimbs(buf, 28, 2)
                /\ g.total_sectors = LeLimbs(buf, 40, 4)
                /\ g.mft_cluster_number = LeLimbs(buf, 48, 4)
                /\ g.mft_mirror_cluster_number = LeLimbs(buf, 56, 4)
                /\ g.volume_serial_number = LeLimbs(buf, 72, 4)

\* an accepted buffer with the top bytes of two fields set
C6_Witness ==
    \E k \in ReadCalls :
        /\ calls[k].out.tag = "Ok"
        /\ calls[k].buf[31] = 255
        /\ calls[k].buf[63] = 255
        /\ calls[k].out.pbs.hidden_sectors = <<63, 65280>>
        /\ calls[k].out.pbs.mft_mirror_cluster_number = <<65364, 7, 0, 65280>>

BootstrapCode == 84..509

\* buf with every byte of the bootstrap code region set to v
Overwritten(buf, v) == [i \in Offsets |-> IF i \in BootstrapCode THEN v ELSE buf[i]]

\* C8: two buffers that differ only inside the bootstrap code region have the
\* same outcome: changing any one byte of the region, or overwriting the
\* whole region, changes neither the failure nor the geometry.
C8_BootstrapOpaque ==
    \A k \in ReadCalls :
        /\ \A o \in BootstrapCode :
              pbs_decode([calls[k].buf EXCEPT ![o] = (@ + 1) % 256], overflow_checks)
                  = calls[k].out
        /\ \A v \in {0, 144, 255} :
              pbs_decode(Overwritten(calls[k].buf, v), overflow_checks) = calls[k].out

\* an accepted buffer whose bootstrap code differs at both ends of the region
C8_Witness ==
    \E k \in ReadCalls :
        /\ calls[k].out.tag = "Ok"
        /\ calls[k].buf[84] = 255
        /\ calls[k].buf[509] = 255

(* ============== the clusters-or-bytes decode alone (SpecSize) ============ *)
InitSize ==
    /\ VolumeIdle
    /\ MainIdle
    /\ overflow_checks \in BOOLEAN
    /\ size_byte \in Byte
    /\ size_out = NoSizes

\* partition_boot_sector.rs:143-148 and 159-164 applied to the same byte
decode_sizes ==
    /\ size_out = NoSizes
    /\ size_out' = [ frs |-> file_record_segment_size(size_byte, overflow_checks),
                     ib |-> index_buffer_size(size_byte, overflow_checks) ]
    /\ UNCHANGED <<overflow_checks, volume_vars, size_byte, main_out>>

NextSize == decode_sizes

SpecSize == InitSize /\ [][NextSize]_vars

SizesDecoded == size_out # NoSizes

\* the u32 held in `limbs` is 2^k (no u32 is, for k >= 32)
IsTwoToThe(limbs, k) ==
    /\ k < 32
    /\ limbs = IF k < 16 THEN <<2 ^ k, 0>> ELSE <<0, 2 ^ (k - 16)>>

\* C4: for every byte b in [1,127] the decode gives Clusters(b), and for every
\* byte b in [129,255], read as -k, it gives Bytes(2^k), for both size fields.
C4_SignedSize ==
    SizesDecoded =>
        \A r \in {size_out.frs, size_out.ib} :
            /\ size_byte \in 1..127 => r = SizeClusters(size_byte)
            /\ size_byte \in 129..255
                  => r.tag = "Bytes" /\ IsTwoToThe(r.n, 256 - size_byte)

\* C5 as stated: every byte in [0,127], 0 included, decodes to Clusters of
\* that value and never to Bytes.
C5_Original ==
    (SizesDecoded /\ size_byte \in 0..127) =>
        /\ size_out.frs = SizeClusters(size_byte)
        /\ size_out.ib = SizeClusters(size_byte)

\* C5 amended: every positive byte N in [1,127] decodes to Clusters(N); the
\* byte 0x00 decodes to Bytes(1), that is 2^0 bytes; the two fields decode
\* every byte to the same Size.
C5_PositiveClusters ==
    SizesDecoded =>
        /\ size_byte \in 1..127 =>
              size_out.frs = SizeClusters(size_byte) /\ size_out.ib = SizeClusters(size_byte)
        /\ size_byte = 0 =>
              size_out.frs = SizeBytes(<<1, 0>>) /\ size_out.ib = SizeBytes(<<1, 0>>)
        /\ size_out.frs.tag = size_out.ib.tag
        /\ size_out.frs.n = size_out.ib.n

\* the byte 0x00 decoded
C5_Witness ==
    /\ SizesDecoded
    /\ size_byte = 0
    /\ size_out.frs.tag = "Bytes"
    /\ size_out.ib.tag = "Bytes"

(* ================ the two entry points side by side (SpecEntry) ========== *)
\* boot sectors that differ from the typical one in one byte: every byte up to
\* the bootstrap code, both ends of the bootstrap code and the marker, and
\* every value of the two size bytes
EntryOffsets == (0..83) \cup {84, 509, 510, 511}
EntryVals == {0, 255}
EntrySectors ==
    {[TypicalSector EXCEPT ![o] = v] : o \in EntryOffsets, v \in EntryVals}
        \cup {[TypicalSector EXCEPT ![o] = b] : o \in SizeOffsets, b \in Byte}
\* a second byte the environment may change as well
EntryPokeOffsets == {0, 510}

InitEntry ==
    /\ file \in {<<>>} \cup {<<s>> : s \in EntrySectors}
    /\ pos = 0
    /\ overflow_checks \in BOOLEAN
    /\ edits = 0
    /\ calls = <<>>
    /\ pc = "run"
    /\ SizeIdle
    /\ MainIdle

\* fn main() (main.rs:11-141): opens the volume itself, reads its first
\* PARTITION_BOOT_SECTOR bytes (line 15) and checks them
main ==
    /\ main_out = NotRun
    /\ main_out' = IF Len(file) >= 1 THEN main_decode(file[1]) ELSE MainPanicked(15)
    /\ UNCHANGED <<overflow_checks, volume_vars, size_vars>>

NextEntry ==
    \/ \E o \in EntryPokeOffsets, v \in PokeVals : Poke(o, v)
    \/ pbs
    \/ main

SpecEntry == InitEntry /\ [][NextEntry]_vars

\* both entry points have read the boot sector of the volume
BothRan == main_out # NotRun /\ calls # <<>> /\ calls[1].read

\* C12: main and pbs validate equally strictly: on the same 512 bytes main
\* runs to its end exactly when pbs returns a PartitionBootSector; neither
\* passes a wrong end-of-sector marker; and main's raw-byte checks at 0x40 and
\* 0x44 (0xF6, 0x01) accept exactly the bytes whose decoded sizes pass pbs's
\* checks (Bytes(1024), Clusters(1)).
C12_EquallyStrict ==
    BothRan =>
        LET buf == calls[1].buf
        IN  /\ main_out.tag = "Completed" <=> calls[1].out.tag = "Ok"
            /\ ~MarkerExpected(buf) => main_out.tag = "Panic" /\ calls[1].out.tag = "Panic"
            /\ buf[64] = 246
                  <=> file_record_segment_size(buf[64], overflow_checks) = SizeBytes(<<1024, 0>>)
            /\ buf[68] = 1
                  <=> index_buffer_size(buf[68], overflow_checks) = SizeClusters(1)
            /\ (main_out.tag = "Panic" /\ main_out.line = 98)
                  => calls[1].out.line \in {147, 149}
            /\ (main_out.tag = "Panic" /\ main_out.line = 109)
                  => calls[1].out.line \in {163, 165}

\* a size byte (0xE0) that main rejects on the raw byte and pbs in the decode
C12_Witness ==
    /\ BothRan
    /\ calls[1].buf[64] = 224
    /\ main_out = MainPanicked(98)
    /\ calls[1].out.line = 147

====
